---- MODULE Spec2Model ----
(***************************************************************************)
(* The shortlisting decision engine of shortlist.py: the three criterion   *)
(* evaluators (check_experience, check_compensation, check_location), the  *)
(* retrying classifier call of llm_utils.py they rest on, and main(), the  *)
(* aggregator that writes each applicant's status and the lead rationale.  *)
(*                                                                         *)
(* The evaluators are functions of what the record store, the geocoder and *)
(* the classifier answer; they are operators here, checked on their own    *)
(* under SpecExperience, SpecCompensation and SpecLocation, which draw the *)
(* answers from bounded sets.  Spec is main(): one action per blocking     *)
(* call it makes.                                                          *)
(***************************************************************************)
EXTENDS Integers, Sequences, FiniteSets, TLC

VARIABLES
    status,                 \* Applicants table: record -> 'Shortlist Status'
    leads,                  \* Shortlisted Leads table: applicant -> lead record
    pc,                     \* main()'s position
    applicants_to_review,   \* main(): the fetched records, in fetched order
    idx,                    \* main(): position of `record` in applicants_to_review
    exp,                    \* main(): (exp_ok, exp_reason) of the current record
    comp,                   \* main(): (comp_ok, comp_reason)
    loc,                    \* main(): (loc_ok, loc_reason)
    final_reason,           \* main(): the composite rationale
    runs,                   \* number of main() runs started
    log,                    \* the writes and evaluations of the current run
    probe                   \* one evaluator call on its own: arguments and result

vars == <<status, leads, pc, applicants_to_review, idx, exp, comp, loc,
          final_reason, runs, log, probe>>

----------------------------------------------------------------------------
(* Values *)

\* Python's None: a missing key read with .get(key), a call with no result
NoneVal == "<None>"

\* A record's "fields" mapping with no key at all
EmptyFields == [k \in {} |-> NoneVal]

\* dict.get(key, default)
Get(fields, key, default) ==
    IF key \in DOMAIN fields THEN fields[key] ELSE default

\* Python truthiness of an optional string: None and "" are falsy
Truthy(s) == s # NoneVal /\ s # ""

----------------------------------------------------------------------------
(* config.py *)

ALLOWED_LOCATIONS == {"India", "United States", "Canada", "UK", "Germany"}
MIN_AVAILABILITY_HRS == 20
MAX_RATE_USD == 100
MIN_YEARS_EXPERIENCE == 4

----------------------------------------------------------------------------
(* Bounds *)

MaxEntries == 2        \* work-history entries per applicant
NumApplicants == 2     \* records of the Applicants table
MaxRuns == 2           \* runs of main()
MaxRetriesArg == 3     \* largest max_retries given to generate_content

----------------------------------------------------------------------------
(* str.lower(), str.upper(), str.strip() on the strings of the model *)

Lower(s) ==
    CASE s = "Present" -> "present"
      [] s = "PRESENT" -> "present"
      [] s = "Berlin" -> "berlin"
      [] s = "Bengaluru {IN}" -> "bengaluru {in}"
      [] s = "Atlantis" -> "atlantis"
      [] s = "Acme" -> "acme"
      [] OTHER -> s

\* Upper leaving the code as typed
UpperAsTyped(s) == s

Upper(s) ==
    CASE s = "usd" -> "USD"
      [] s = "eur" -> "EUR"
      [] s = "inr" -> "INR"
      [] s = "xxx" -> "XXX"
      [] OTHER -> s

Strip(s) ==
    CASE s = " Germany" -> "Germany"
      [] s = " Deutschland" -> "Deutschland"
      [] s = " India" -> "India"
      [] s = " France" -> "France"
      [] OTHER -> s

\* str.format(**kwargs) raises on a replacement field it cannot fill: a lone
\* brace, or a field name that is not among the keyword arguments
FormatRaises(text) == text \in {"bengaluru {in}", "Bengaluru {IN}"}

----------------------------------------------------------------------------
(* datetime.strptime(s, "%Y-%m-%d") and date arithmetic *)

IsLeap(y) == (y % 4 = 0 /\ y % 100 # 0) \/ y % 400 = 0

DaysInMonth(y, m) ==
    IF m = 2 THEN (IF IsLeap(y) THEN 29 ELSE 28)
    ELSE IF m \in {4, 6, 9, 11} THEN 30 ELSE 31

RECURSIVE DaysBeforeMonth(_, _)
DaysBeforeMonth(y, m) ==
    IF m <= 1 THEN 0 ELSE DaysBeforeMonth(y, m - 1) + DaysInMonth(y, m - 1)

\* proleptic Gregorian ordinal of a date (date.toordinal)
Ordinal(y, m, d) ==
    LET p == y - 1
    IN  p * 365 + (p \div 4) - (p \div 100) + (p \div 400)
        + DaysBeforeMonth(y, m) + d

\* The digits a string holds when it matches %Y-%m-%d; other strings do not
\* match the format
DateDigits ==
    [s \in {"2020-01-01", "2024-01-01", "2024-03-01", "2021-02-30"} |->
        CASE s = "2020-01-01" -> <<2020, 1, 1>>
          [] s = "2024-01-01" -> <<2024, 1, 1>>
          [] s = "2024-03-01" -> <<2024, 3, 1>>
          [] s = "2021-02-30" -> <<2021, 2, 30>>]

\* strptime: [ok |-> TRUE, ord |-> day number], or ValueError as [ok |-> FALSE]
Strptime(s) ==
    IF s \notin DOMAIN DateDigits THEN [ok |-> FALSE, ord |-> 0]
    ELSE LET t == DateDigits[s]
         IN  IF t[2] \in 1..12 /\ t[3] \in 1..DaysInMonth(t[1], t[2])
             THEN [ok |-> TRUE, ord |-> Ordinal(t[1], t[2], t[3])]
             ELSE [ok |-> FALSE, ord |-> 0]

\* datetime.now(), as a date: the day the script runs
Today == Ordinal(2025, 6, 1)

----------------------------------------------------------------------------
(* llm_utils.py: LLMClient.generate_content *)

MAX_RETRIES == 3
BACKOFF_FACTOR == 2

\* One call of client.models.generate_content: a response text, or an exception
Raises == "<raises>"
AttemptOutcomes == {"Yes", "No", "yes", Raises}

\* The backoff_factor arguments tried
BackoffValues == {2, 3}

RECURSIVE Pow(_, _)
Pow(b, e) == IF e = 0 THEN 1 ELSE b * Pow(b, e - 1)

\* GenerateContentFrom sleeping after every failed attempt, the last included
RECURSIVE GenerateContentFromSleepAlways(_, _, _, _, _, _)
GenerateContentFromSleepAlways(outcomes, max_retries, backoff_factor, attempt, calls, sleeps) ==
    IF attempt >= max_retries
    THEN [text |-> NoneVal, calls |-> calls, sleeps |-> sleeps]
    ELSE IF outcomes[attempt + 1] # Raises
    THEN [text |-> outcomes[attempt + 1], calls |-> calls + 1, sleeps |-> sleeps]
    ELSE GenerateContentFromSleepAlways(outcomes, max_retries, backoff_factor,
                                        attempt + 1, calls + 1,
                                        Append(sleeps, Pow(backoff_factor, attempt)))

\* The retry loop from attempt `attempt` on; outcomes[k+1] is what attempt k gets
RECURSIVE GenerateContentFrom(_, _, _, _, _, _)
GenerateContentFrom(outcomes, max_retries, backoff_factor, attempt, calls, sleeps) ==
    IF attempt >= max_retries
    THEN [text |-> NoneVal, calls |-> calls, sleeps |-> sleeps]
    ELSE IF outcomes[attempt + 1] # Raises
    THEN [text |-> outcomes[attempt + 1], calls |-> calls + 1, sleeps |-> sleeps]
    ELSE IF attempt < max_retries - 1
    THEN GenerateContentFrom(outcomes, max_retries, backoff_factor,
                             attempt + 1, calls + 1,
                             Append(sleeps, Pow(backoff_factor, attempt)))
    ELSE [text |-> NoneVal, calls |-> calls + 1, sleeps |-> sleeps]

\* generate_content(prompt, max_retries, backoff_factor)
GenerateContentWith(outcomes, max_retries, backoff_factor) ==
    GenerateContentFrom(outcomes, max_retries, backoff_factor, 0, 0, <<>>)

\* generate_content(prompt), as shortlist.py calls it: the default arguments
GenerateContent(outcomes) ==
    GenerateContentWith(outcomes, MAX_RETRIES, BACKOFF_FACTOR)

\* What llm.generate_content can return to its caller
LLMReturns ==
    {GenerateContent(o).text : o \in [1..MAX_RETRIES -> AttemptOutcomes]}

----------------------------------------------------------------------------
(* shortlist.py: check_experience *)

\* YearsAtLeastMin with > for >=
YearsAboveMin(total_days) == total_days * 4 > MIN_YEARS_EXPERIENCE * 1461

\* total_days / 365.25 >= MIN_YEARS_EXPERIENCE, in whole numbers (365.25 = 1461/4)
YearsAtLeastMin(total_days) == total_days * 4 >= MIN_YEARS_EXPERIENCE * 1461

\* f"{total_years:.1f}": the tenths of a year nearest to total_days / 365.25
YearsTenths(total_days) == (total_days * 80 + 1461) \div (2 * 1461)

\* EntryDays comparing the end date with "present" as typed, without lower()
EntryDaysPresentAsTyped(fields) ==
    LET start_date_str == Get(fields, "Start", NoneVal)
        end_date_str == Get(fields, "End", NoneVal)
        start_date == Strptime(start_date_str)
        end_date == IF end_date_str = "present"
                    THEN [ok |-> TRUE, ord |-> Today]
                    ELSE Strptime(end_date_str)
    IN  IF ~Truthy(start_date_str) \/ ~Truthy(end_date_str)
        THEN [ok |-> FALSE, days |-> 0]
        ELSE IF ~start_date.ok \/ ~end_date.ok
        THEN [ok |-> FALSE, days |-> 0]
        ELSE [ok |-> TRUE, days |-> end_date.ord - start_date.ord]

\* (end_date - start_date).days of one entry: [ok |-> FALSE] when the entry is
\* skipped (a date missing or empty, or strptime raising ValueError)
EntryDays(fields) ==
    LET start_date_str == Get(fields, "Start", NoneVal)
        end_date_str == Get(fields, "End", NoneVal)
        start_date == Strptime(start_date_str)
        end_date == IF Lower(end_date_str) = "present"
                    THEN [ok |-> TRUE, ord |-> Today]
                    ELSE Strptime(end_date_str)
    IN  IF ~Truthy(start_date_str) \/ ~Truthy(end_date_str)
        THEN [ok |-> FALSE, days |-> 0]
        ELSE IF ~start_date.ok \/ ~end_date.ok
        THEN [ok |-> FALSE, days |-> 0]
        ELSE [ok |-> TRUE, days |-> end_date.ord - start_date.ord]

\* ExperienceStep with temp_tier_1 set anew from each entry's answer
ExperienceStepResetFlag(acc, fields, prompt_result) ==
    LET temp == prompt_result = "Yes"
        e == EntryDays(fields)
    IN  IF ~e.ok
        THEN [acc EXCEPT !.temp_tier_1 = temp]
        ELSE [temp_tier_1 |-> temp,
              worked_at_tier_1 |-> temp /\ e.days > 0,
              total_days |-> acc.total_days + e.days]

\* ExperienceStep reading temp_tier_1 as it was before this entry's answer
ExperienceStepStaleFlag(acc, fields, prompt_result) ==
    LET temp == acc.temp_tier_1 \/ prompt_result = "Yes"
        e == EntryDays(fields)
    IN  IF ~e.ok
        THEN [acc EXCEPT !.temp_tier_1 = temp]
        ELSE [temp_tier_1 |-> temp,
              worked_at_tier_1 |-> acc.temp_tier_1 /\ e.days > 0,
              total_days |-> acc.total_days + e.days]

\* One iteration of the for loop: `acc` holds the locals, prompt_result is what
\* llm.generate_content returned for this entry's company
ExperienceStep(acc, fields, prompt_result) ==
    LET temp == acc.temp_tier_1 \/ prompt_result = "Yes"
        e == EntryDays(fields)
    IN  IF ~e.ok
        THEN [acc EXCEPT !.temp_tier_1 = temp]
        ELSE [temp_tier_1 |-> temp,
              worked_at_tier_1 |-> temp /\ e.days > 0,
              total_days |-> acc.total_days + e.days]

RECURSIVE ExperienceLoop(_, _, _, _)
ExperienceLoop(acc, experiences, answers, i) ==
    IF i > Len(experiences) THEN acc
    ELSE ExperienceLoop(ExperienceStep(acc, experiences[i], answers[i]),
                        experiences, answers, i + 1)

\* check_experience, given the fetched entries (their "fields") and the
\* classifier's answer for each; llm_none records that an answer was None
CheckExperience(experiences, answers) ==
    LET acc == ExperienceLoop([temp_tier_1 |-> FALSE, worked_at_tier_1 |-> FALSE,
                               total_days |-> 0], experiences, answers, 1)
        ok == (YearsAtLeastMin(acc.total_days) \/ acc.worked_at_tier_1)
              /\ acc.total_days > 0
    IN  [ok |-> ok,
         reason |-> IF ok
                    THEN <<"Experience", YearsTenths(acc.total_days),
                           IF acc.worked_at_tier_1 THEN "Yes" ELSE "No">>
                    ELSE <<"Experience (below min)", YearsTenths(acc.total_days), "No">>,
         total_days |-> acc.total_days,
         worked_at_tier_1 |-> acc.worked_at_tier_1,
         llm_calls |-> Len(experiences),
         llm_none |-> \E i \in 1..Len(experiences) : answers[i] = NoneVal]

----------------------------------------------------------------------------
(* shortlist.py: check_compensation *)

\* CONVERSION_RATES, the snapshot fetched at import: code -> rate as <<num, den>>.
\* The rates are binary fractions, so the float quotient rate / r is exact.
CONVERSION_RATES ==
    [c \in {"USD", "EUR", "INR"} |->
        CASE c = "USD" -> <<1, 1>>
          [] c = "EUR" -> <<7, 8>>
          [] c = "INR" -> <<167, 2>>]

\* CONVERSION_RATES.get(currency, 1)
ConversionRate(currency) == Get(CONVERSION_RATES, currency, <<1, 1>>)

\* rate / CONVERSION_RATES.get(currency, 1) <= MAX_RATE_USD, cross-multiplied
RateOk(rate, currency) ==
    LET r == ConversionRate(currency)
    IN  rate * r[2] <= MAX_RATE_USD * r[1]

AvailabilityOk(availability) == availability >= MIN_AVAILABILITY_HRS

\* salary_records[0].get("fields", {}) if salary_records else {}
FirstFields(records) ==
    IF Len(records) = 0 THEN EmptyFields
    ELSE Get(records[1], "fields", EmptyFields)

NoSalaryReason == <<"No salary information available.">>

\* No salary-preference record was fetched, or the first one has no fields
SalaryAbsent(records) ==
    \/ records = <<>>
    \/ "fields" \notin DOMAIN records[1]
    \/ DOMAIN records[1]["fields"] = {}

\* CheckCompensation without the `if not salary` return: the defaults apply
CheckCompensationNoAbsenceCheck(salary_records) ==
    LET salary == FirstFields(salary_records)
        rate == Get(salary, "Preferred Rate", 0)
        currency == Upper(Get(salary, "Currency", "USD"))
        availability == Get(salary, "Availability (hrs/wk)", 0)
        rate_ok == RateOk(rate, currency)
        availability_ok == AvailabilityOk(availability)
    IN  IF rate_ok /\ availability_ok
        THEN [ok |-> TRUE, reason |-> <<"Compensation", rate, availability>>]
        ELSE [ok |-> FALSE,
              reason |-> <<"Compensation (not met)",
                           IF ~rate_ok THEN <<rate, MAX_RATE_USD>> ELSE <<>>,
                           IF ~availability_ok
                           THEN <<availability, MIN_AVAILABILITY_HRS>> ELSE <<>> >>]

\* check_compensation, given the fetched salary records
CheckCompensation(salary_records) ==
    LET salary == FirstFields(salary_records)
        rate == Get(salary, "Preferred Rate", 0)
        currency == Upper(Get(salary, "Currency", "USD"))
        availability == Get(salary, "Availability (hrs/wk)", 0)
        rate_ok == RateOk(rate, currency)
        availability_ok == AvailabilityOk(availability)
    IN  IF DOMAIN salary = {}
        THEN [ok |-> FALSE, reason |-> NoSalaryReason]
        ELSE IF rate_ok /\ availability_ok
        THEN [ok |-> TRUE, reason |-> <<"Compensation", rate, availability>>]
        ELSE [ok |-> FALSE,
              reason |-> <<"Compensation (not met)",
                           IF ~rate_ok THEN <<rate, MAX_RATE_USD>> ELSE <<>>,
                           IF ~availability_ok
                           THEN <<availability, MIN_AVAILABILITY_HRS>> ELSE <<>> >>]

----------------------------------------------------------------------------
(* shortlist.py: check_location *)

\* Nominatim(...).geocode(location): no result (None), an address (its
\* comma-separated parts), or an exception of the geocoder
GeoNone == [kind |-> "none", address |-> <<>>]
GeoError == [kind |-> "error", address |-> <<>>]
GeoAddress(parts) == [kind |-> "address", address |-> parts]

\* Country without the strip()
CountryUnstripped(geo) == geo.address[Len(geo.address)]

\* address.split(",")[-1].strip()
Country(geo) == Strip(geo.address[Len(geo.address)])

LocationReason(text, accepted) ==
    <<"Location", text, IF accepted THEN "Allowed" ELSE "Not in allowed list">>

\* check_location, given the fetched personal records, the geocoder's outcome
\* and what llm.generate_content returns if it is called.  raised: an exception
\* leaves check_location (str.format failing inside the AttributeError handler)
CheckLocation(personal_records, geo, prompt_result) ==
    LET personal == FirstFields(personal_records)
        location == Lower(Get(personal, "Location", ""))
        not_allowed == [raised |-> FALSE, ok |-> FALSE,
                        reason |-> LocationReason(Get(personal, "Location", NoneVal), FALSE),
                        llm_calls |-> 0, llm_none |-> FALSE]
    IN  CASE geo.kind = "address" ->
               IF Country(geo) \in ALLOWED_LOCATIONS
               THEN [raised |-> FALSE, ok |-> TRUE,
                     reason |-> LocationReason(Get(personal, "location", NoneVal), TRUE),
                     llm_calls |-> 0, llm_none |-> FALSE]
               ELSE not_allowed
          [] geo.kind = "none" ->
               IF FormatRaises(location)
               THEN [raised |-> TRUE, ok |-> FALSE, reason |-> <<"raised">>,
                     llm_calls |-> 0, llm_none |-> FALSE]
               ELSE IF prompt_result = "Yes"
               THEN [raised |-> FALSE, ok |-> TRUE,
                     reason |-> LocationReason(Get(personal, "Location", NoneVal), TRUE),
                     llm_calls |-> 1, llm_none |-> FALSE]
               ELSE [not_allowed EXCEPT !.llm_calls = 1,
                                        !.llm_none = (prompt_result = NoneVal)]
          [] OTHER -> not_allowed

----------------------------------------------------------------------------
(* What the record store, the geocoder and the classifier can answer *)

Field(key, values) == {key :> v : v \in values}

\* records of a table: "id" and "fields"
Rec(fields) == ("id" :> "rec") @@ ("fields" :> fields)

Merge3(A, B, C) == {a @@ b @@ c : a \in A, b \in B, c \in C}

StartValues == {"2020-01-01", "2024-03-01", "Jan 2020"}
EndValues == {"", "2024-01-01", "Present", "2021-02-30"}

WorkEntries(starts, ends) ==
    Merge3(Field("Company", {"Acme"}),
           {EmptyFields} \cup Field("Start", starts),
           Field("End", ends))

SeqsUpTo(S, n) == UNION {[1..k -> S] : k \in 0..n}

\* fetched work history with the classifier's answer per entry
ExperienceInputs(entries, returns, n) ==
    {[experiences |-> [i \in DOMAIN p |-> p[i][1]],
      answers |-> [i \in DOMAIN p |-> p[i][2]]] :
        p \in SeqsUpTo(entries \X returns, n)}

RateValues == {50, 87, 88, 100, 101, 8350, 8351}
CurrencyValues == {"USD", "usd", "EUR", "eur", "INR", "XXX", "xxx"}
AvailabilityValues == {19, 20, 25}

SalaryFields(rates, currencies, hours) ==
    Merge3({EmptyFields} \cup Field("Preferred Rate", rates),
           {EmptyFields} \cup Field("Currency", currencies),
           {EmptyFields} \cup Field("Availability (hrs/wk)", hours))

\* fetched records of a one-per-applicant table: none, one without a "fields"
\* mapping, or one with the given fields
RecordLists(fieldsets) ==
    {<<>>, <<"id" :> "rec">>} \cup {<<Rec(f)>> : f \in fieldsets}

LocationValues == {"", "Berlin", "berlin", "Atlantis", "Bengaluru {IN}"}

PersonalFields(locations) == {EmptyFields} \cup Field("Location", locations)

GeoOutcomes ==
    {GeoNone, GeoError,
     GeoAddress(<<"Berlin", " Germany">>), GeoAddress(<<"Berlin", " Deutschland">>),
     GeoAddress(<<"India">>), GeoAddress(<<"Paris", " France">>)}

\* The geocoder resolves no address from an empty query
Geocodable(in) ==
    Get(FirstFields(in.personal_records), "Location", "") = ""
        => in.geo.kind # "address"

LocationInputs(locations, geos, returns) ==
    {in \in [personal_records : RecordLists(PersonalFields(locations)),
             geo : geos, prompt_result : returns] : Geocodable(in)}

\* The answers main() is run against: one representative per outcome of each
\* evaluator
MainExperienceInputs ==
    ExperienceInputs(Merge3(Field("Company", {"Acme"}),
                            Field("Start", {"2020-01-01", "2024-03-01"}),
                            Field("End", {"Present"})),
                     {"Yes", "No", NoneVal}, 1)

MainSalaryInputs ==
    {<<>>, <<Rec(EmptyFields)>>}
    \cup {<<Rec(f)>> : f \in Merge3(Field("Preferred Rate", {50, 101}),
                                    Field("Currency", {"usd"}),
                                    Field("Availability (hrs/wk)", {25}))}

MainLocationInputs ==
    {in \in [personal_records : {<<>>} \cup {<<Rec(f)>> : f \in Field("Location", {"Berlin", "Bengaluru {IN}"})},
             geo : {GeoNone, GeoError, GeoAddress(<<"Berlin", " Germany">>)},
             prompt_result : {"Yes", "No", NoneVal}] : Geocodable(in)}

----------------------------------------------------------------------------
(* State *)

Applicants == 1..NumApplicants

StatusValues == {"", "Pending", "Shortlisted", "Not Shortlisted"}

NoResult == [set |-> FALSE, ok |-> FALSE, reason |-> <<>>]
Result(r) == [set |-> TRUE, ok |-> r.ok, reason |-> r.reason]

NoLead == [exists |-> FALSE, score_reason |-> <<>>]

\* What one run of main() has done so far: the records whose evaluation began,
\* the status and lead writes in order, whether a classifier call of the current
\* record returned None, whether the current record had no salary fields, and
\* whether the run ended in one of the except clauses
NewLog == [evaluated |-> <<>>, status_writes |-> <<>>, lead_writes |-> <<>>,
           llm_none |-> FALSE, salary_absent |-> FALSE, error |-> FALSE]

NoProbe == [fn |-> "none"]

Init ==
    /\ status \in [Applicants -> StatusValues]
    /\ leads = [a \in Applicants |-> NoLead]
    /\ pc = "idle"
    /\ applicants_to_review = <<>>
    /\ idx = 0
    /\ exp = NoResult
    /\ comp = NoResult
    /\ loc = NoResult
    /\ final_reason = <<>>
    /\ runs = 0
    /\ log = NewLog
    /\ probe = NoProbe

mainVars == <<status, leads, pc, applicants_to_review, idx, exp, comp, loc,
              final_reason, runs, log>>

----------------------------------------------------------------------------
(* The evaluators on their own *)

ProbeCheckExperience ==
    /\ probe.fn = "none"
    /\ \E in \in ExperienceInputs(WorkEntries(StartValues, EndValues),
                                  LLMReturns, MaxEntries) :
          probe' = [fn |-> "check_experience", args |-> in,
                    ret |-> CheckExperience(in.experiences, in.answers)]
    /\ UNCHANGED mainVars

ProbeCheckCompensation ==
    /\ probe.fn = "none"
    /\ \E recs \in RecordLists(SalaryFields(RateValues, CurrencyValues,
                                            AvailabilityValues)) :
          probe' = [fn |-> "check_compensation", args |-> recs,
                    ret |-> CheckCompensation(recs)]
    /\ UNCHANGED mainVars

ProbeCheckLocation ==
    /\ probe.fn = "none"
    /\ \E in \in LocationInputs(LocationValues, GeoOutcomes, LLMReturns) :
          probe' = [fn |-> "check_location", args |-> in,
                    ret |-> CheckLocation(in.personal_records, in.geo,
                                          in.prompt_result)]
    /\ UNCHANGED mainVars

\* An evaluator reads no status: one table state is enough to call it from
\* One call of generate_content with max_retries and backoff_factor given
ProbeGenerateContent ==
    /\ probe.fn = "none"
    /\ \E n \in 0..MaxRetriesArg, b \in BackoffValues :
          \E o \in [1..n -> AttemptOutcomes] :
             probe' = [fn |-> "generate_content",
                       args |-> [outcomes |-> o, max_retries |-> n,
                                 backoff_factor |-> b],
                       ret |-> GenerateContentWith(o, n, b)]
    /\ UNCHANGED mainVars

ProbeInit == Init /\ status = [a \in Applicants |-> ""]

SpecExperience == ProbeInit /\ [][ProbeCheckExperience]_vars
SpecCompensation == ProbeInit /\ [][ProbeCheckCompensation]_vars
SpecLocation == ProbeInit /\ [][ProbeCheckLocation]_vars
SpecGenerateContent == ProbeInit /\ [][ProbeGenerateContent]_vars

----------------------------------------------------------------------------
(* shortlist.py: main *)

\* The records the filterByFormula of main() selects, in the table's order:
\* OR({Shortlist Status} = '', {Shortlist Status} = 'Pending')
RECURSIVE SelectFrom(_, _)
SelectFrom(st, a) ==
    IF a > NumApplicants THEN <<>>
    ELSE IF st[a] = "" \/ st[a] = "Pending"
    THEN <<a>> \o SelectFrom(st, a + 1)
    ELSE SelectFrom(st, a + 1)

\* SelectPending without the filter: every record of the table
SelectEveryRecord(st) == [a \in 1..NumApplicants |-> a]

SelectPending(st) == SelectFrom(st, 1)

\* Verdict with the location result left out of the conjunction
VerdictWithoutLocation(exp_ok, comp_ok, loc_ok) ==
    IF exp_ok /\ comp_ok THEN "Shortlisted" ELSE "Not Shortlisted"

\* status = "Shortlisted" if all_criteria_met else "Not Shortlisted"
Verdict(exp_ok, comp_ok, loc_ok) ==
    IF exp_ok /\ comp_ok /\ loc_ok THEN "Shortlisted" ELSE "Not Shortlisted"

\* final_reason: the banner with the status, then the three reasons in order
FinalReason(st, exp_reason, comp_reason, loc_reason) ==
    <<st, exp_reason, comp_reason, loc_reason>>

record == applicants_to_review[idx]

\* The for loop goes on to the next record, or main() ends
NextRecord(newlog) ==
    IF idx < Len(applicants_to_review)
    THEN /\ idx' = idx + 1
         /\ pc' = "check_experience"
         /\ exp' = NoResult
         /\ comp' = NoResult
         /\ loc' = NoResult
         /\ final_reason' = <<>>
         /\ log' = [newlog EXCEPT !.llm_none = FALSE, !.salary_absent = FALSE]
         /\ UNCHANGED applicants_to_review
    ELSE /\ pc' = "idle"
         /\ applicants_to_review' = <<>>
         /\ idx' = 0
         /\ exp' = NoResult
         /\ comp' = NoResult
         /\ loc' = NoResult
         /\ final_reason' = <<>>
         /\ log' = newlog

\* main() returns: its locals are gone, the tables stay as written
Return(failed) ==
    /\ pc' = "idle"
    /\ applicants_to_review' = <<>>
    /\ idx' = 0
    /\ exp' = NoResult
    /\ comp' = NoResult
    /\ loc' = NoResult
    /\ final_reason' = <<>>
    /\ log' = [log EXCEPT !.error = failed]

\* Abort as a handler inside the loop: the error is noted and the loop goes on
AbortContinues ==
    /\ NextRecord([log EXCEPT !.error = TRUE])
    /\ UNCHANGED <<status, leads, runs, probe>>

\* An exception reaches one of main()'s except clauses: it is printed and main()
\* returns
Abort == Return(TRUE) /\ UNCHANGED <<status, leads, runs, probe>>

\* main() starts: the applicants to review are fetched
MainFetch ==
    /\ pc = "idle"
    /\ runs < MaxRuns
    /\ runs' = runs + 1
    /\ UNCHANGED <<status, leads, probe, exp, comp, loc, final_reason>>
    /\ \/ \* fetch_records raises
          /\ pc' = "idle"
          /\ log' = [NewLog EXCEPT !.error = TRUE]
          /\ UNCHANGED <<applicants_to_review, idx>>
       \/ LET records == SelectPending(status)
          IN  /\ log' = NewLog
              /\ IF records = <<>>
                 THEN pc' = "idle" /\ UNCHANGED <<applicants_to_review, idx>>
                 ELSE /\ pc' = "check_experience"
                      /\ applicants_to_review' = records
                      /\ idx' = 1

\* exp_ok, exp_reason = check_experience(applicant_id)
CallCheckExperience ==
    /\ pc = "check_experience"
    /\ \/ Abort
       \/ \E in \in MainExperienceInputs :
             LET r == CheckExperience(in.experiences, in.answers)
             IN  /\ exp' = Result(r)
                 /\ log' = [log EXCEPT !.evaluated = Append(@, record),
                                       !.llm_none = @ \/ r.llm_none]
                 /\ pc' = "check_compensation"
                 /\ UNCHANGED <<status, leads, applicants_to_review, idx, comp,
                                loc, final_reason, runs, probe>>

\* comp_ok, comp_reason = check_compensation(applicant_id)
CallCheckCompensation ==
    /\ pc = "check_compensation"
    /\ \/ Abort
       \/ \E recs \in MainSalaryInputs :
             /\ comp' = Result(CheckCompensation(recs))
             /\ log' = [log EXCEPT !.salary_absent = SalaryAbsent(recs)]
             /\ pc' = "check_location"
             /\ UNCHANGED <<status, leads, applicants_to_review, idx, exp, loc,
                            final_reason, runs, probe>>

\* loc_ok, loc_reason = check_location(applicant_id), then status and
\* final_reason are computed
CallCheckLocation ==
    /\ pc = "check_location"
    /\ \/ Abort
       \/ \E in \in MainLocationInputs :
             LET r == CheckLocation(in.personal_records, in.geo, in.prompt_result)
             IN  IF r.raised
                 THEN Abort
                 ELSE /\ loc' = Result(r)
                      /\ final_reason' =
                            FinalReason(Verdict(exp.ok, comp.ok, r.ok),
                                        exp.reason, comp.reason, r.reason)
                      /\ log' = [log EXCEPT !.llm_none = @ \/ r.llm_none]
                      /\ pc' = "update_status"
                      /\ UNCHANGED <<status, leads, applicants_to_review, idx,
                                     exp, comp, runs, probe>>

\* airtable.update_record(APPLICANTS_TABLE, record["id"], {"Shortlist Status": status})
UpdateStatus ==
    /\ pc = "update_status"
    /\ \/ Abort
       \/ LET st == Verdict(exp.ok, comp.ok, loc.ok)
              newlog == [log EXCEPT !.status_writes = Append(@, <<record, st>>)]
          IN  /\ status' = [status EXCEPT ![record] = st]
              /\ UNCHANGED <<leads, runs, probe>>
              /\ IF st = "Shortlisted"
                 THEN /\ pc' = "sleep"
                      /\ log' = newlog
                      /\ UNCHANGED <<applicants_to_review, idx, exp, comp, loc,
                                     final_reason>>
                 ELSE NextRecord(newlog)

\* time.sleep(5)
Sleep ==
    /\ pc = "sleep"
    /\ pc' = "create_shortlisted_lead"
    /\ UNCHANGED <<status, leads, applicants_to_review, idx, exp, comp, loc,
                   final_reason, runs, log, probe>>

\* CreateShortlistedLead as an upsert: without a lead record, one is created
CreateShortlistedLeadUpsert ==
    /\ pc = "create_shortlisted_lead"
    /\ \/ Abort
       \/ /\ UNCHANGED <<status, runs, probe>>
          /\ leads' = [leads EXCEPT ![record] =
                           [exists |-> TRUE, score_reason |-> final_reason]]
          /\ NextRecord([log EXCEPT !.lead_writes =
                             Append(@, <<record, IF leads[record].exists
                                                 THEN "update" ELSE "create">>)])

\* create_shortlisted_lead(applicant_id, final_reason): the lead record of the
\* applicant is fetched and, when there is one, its Score Reason is updated
CreateShortlistedLead ==
    /\ pc = "create_shortlisted_lead"
    /\ \/ Abort
       \/ /\ UNCHANGED <<status, runs, probe>>
          /\ IF leads[record].exists
             THEN /\ leads' = [leads EXCEPT ![record].score_reason = final_reason]
                  /\ NextRecord([log EXCEPT !.lead_writes =
                                     Append(@, <<record, "update">>)])
             ELSE /\ UNCHANGED leads
                  /\ NextRecord(log)

\* The table's own automation, outside the script: it adds the lead record of
\* an applicant whose status has become Shortlisted
Automation ==
    /\ \E a \in Applicants :
          /\ status[a] = "Shortlisted"
          /\ ~leads[a].exists
          /\ leads' = [leads EXCEPT ![a].exists = TRUE]
    /\ UNCHANGED <<status, pc, applicants_to_review, idx, exp, comp, loc,
                   final_reason, runs, log, probe>>

Next ==
    \/ MainFetch
    \/ CallCheckExperience
    \/ CallCheckCompensation
    \/ CallCheckLocation
    \/ UpdateStatus
    \/ Sleep
    \/ CreateShortlistedLead
    \/ Automation

Spec == Init /\ [][Next]_vars

----------------------------------------------------------------------------
(* Properties *)

Terminal == {"Shortlisted", "Not Shortlisted"}

StatusWritten == log'.status_writes # log.status_writes /\ pc = "update_status"

LastWrite(l) == l.status_writes[Len(l.status_writes)]

\* The days of the entries whose two dates parse, summed over the whole list
RECURSIVE SumDays(_)
SumDays(experiences) ==
    IF experiences = <<>> THEN 0
    ELSE LET e == EntryDays(Head(experiences))
         IN  (IF e.ok THEN e.days ELSE 0) + SumDays(Tail(experiences))

ExperienceCalled == probe.fn = "check_experience"
CompensationCalled == probe.fn = "check_compensation"
LocationCalled == probe.fn = "check_location"

\* C1: the status main() writes for a record is 'Shortlisted' exactly when
\* check_experience, check_compensation and check_location all returned True,
\* and 'Not Shortlisted' otherwise.
C1_StatusIsConjunction ==
    [][StatusWritten =>
         /\ LastWrite(log')[1] = record
         /\ status'[record] = LastWrite(log')[2]
         /\ status'[record] \in Terminal
         /\ status'[record] = "Shortlisted" <=> (exp.ok /\ comp.ok /\ loc.ok)]_vars

\* A run that wrote 'Shortlisted' for one record and 'Not Shortlisted' for another
C1_Witness ==
    /\ \E i \in DOMAIN log.status_writes : log.status_writes[i][2] = "Shortlisted"
    /\ \E i \in DOMAIN log.status_writes : log.status_writes[i][2] = "Not Shortlisted"

\* C2: check_experience returns True exactly when (total_years >= 4 or
\* worked_at_tier_1) and total_years > 0, total_years being the summed days of
\* the entries over 365.25; so enough years with positive total pass whatever the
\* flag, and a zero total fails whatever the classifier answered.
C2_ExperiencePassCondition ==
    ExperienceCalled =>
        LET total == SumDays(probe.args.experiences)
            enough == total * 100 >= MIN_YEARS_EXPERIENCE * 36525
        IN  /\ probe.ret.total_days = total
            /\ probe.ret.ok <=> ((enough \/ probe.ret.worked_at_tier_1) /\ total > 0)
            /\ (enough /\ total > 0) => probe.ret.ok
            /\ total = 0 => ~probe.ret.ok

\* No parseable entry, the classifier answering 'Yes': check_experience fails
C2_Witness ==
    /\ ExperienceCalled
    /\ Len(probe.args.experiences) > 0
    /\ SumDays(probe.args.experiences) = 0
    /\ \A i \in DOMAIN probe.args.answers : probe.args.answers[i] = "Yes"
    /\ ~probe.ret.ok

\* The applicant's only entry is parseable, of positive duration, and classified
\* 'Yes'
OnlyEntryTier1 ==
    /\ ExperienceCalled
    /\ Len(probe.args.experiences) = 1
    /\ probe.args.answers[1] = "Yes"
    /\ EntryDays(probe.args.experiences[1]).ok
    /\ EntryDays(probe.args.experiences[1]).days > 0

\* C3: when the only work-history entry is classified 'Yes' and has parseable
\* dates of positive duration, check_experience returns True, also below the
\* minimum of years.
C3_Tier1ShortCircuits == OnlyEntryTier1 => probe.ret.ok

\* Such an applicant with less than the minimum of years, passing
C3_Witness ==
    /\ OnlyEntryTier1
    /\ EntryDays(probe.args.experiences[1]).days * 100 < MIN_YEARS_EXPERIENCE * 36525
    /\ probe.ret.ok

\* C4: when llm.generate_content returned None while the record was evaluated,
\* the record's processing is aborted: no status is written for it.
C4_LLMFailureAborts ==
    [][(pc = "update_status" /\ log.llm_none) => status' = status]_vars

\* C5: with no salary fields check_compensation returns (False, "No salary
\* information available."), the status main() writes is 'Not Shortlisted'
\* whatever the other two results, and no lead write follows.
C5_NoSalaryNotShortlisted ==
    /\ [](log.salary_absent =>
            /\ pc \notin {"sleep", "create_shortlisted_lead"}
            /\ comp.set => (~comp.ok /\ comp.reason = NoSalaryReason)
            /\ pc = "update_status" => final_reason[1] = "Not Shortlisted")
    /\ [][(StatusWritten /\ log.salary_absent) =>
            /\ status'[record] = "Not Shortlisted"
            /\ leads' = leads
            /\ log'.lead_writes = log.lead_writes
            /\ pc' \in {"check_experience", "idle"}]_vars

\* A record without salary fields whose experience and location passed, its
\* status computed as 'Not Shortlisted' and about to be written
C5_Witness ==
    /\ pc = "update_status"
    /\ log.salary_absent
    /\ exp.ok
    /\ loc.ok
    /\ comp.reason = NoSalaryReason
    /\ final_reason[1] = "Not Shortlisted"

\* The snapshot rate the claim names for a currency code: that of the
\* upper-cased code when the snapshot has it, 1 otherwise
SnapshotRate(c) ==
    CASE c \in {"USD", "usd"} -> <<1, 1>>
      [] c \in {"EUR", "eur"} -> <<7, 8>>
      [] c \in {"INR", "inr"} -> <<167, 2>>
      [] OTHER -> <<1, 1>>

FullSalaryRecord ==
    /\ CompensationCalled
    /\ probe.args # <<>>
    /\ "fields" \in DOMAIN probe.args[1]
    /\ DOMAIN probe.args[1]["fields"] =
          {"Preferred Rate", "Currency", "Availability (hrs/wk)"}

\* C6: for a salary record with a rate, a currency code and an availability,
\* check_compensation returns True exactly when rate / r(c) <= MAX_RATE_USD and
\* availability >= MIN_AVAILABILITY_HRS, r(c) being 1 for a code the snapshot
\* does not have.
C6_CompensationPassCondition ==
    FullSalaryRecord =>
        LET f == probe.args[1]["fields"]
            r == SnapshotRate(f["Currency"])
        IN  probe.ret.ok <=>
               /\ f["Preferred Rate"] * r[2] <= MAX_RATE_USD * r[1]
               /\ f["Availability (hrs/wk)"] >= MIN_AVAILABILITY_HRS

\* A rate in a currency the snapshot does not have, accepted at face value
C6_Witness ==
    /\ FullSalaryRecord
    /\ probe.args[1]["fields"]["Currency"] \in {"XXX", "xxx"}
    /\ probe.args[1]["fields"]["Preferred Rate"] = 100
    /\ probe.ret.ok

GeocodedAllowed ==
    /\ LocationCalled
    /\ probe.args.geo \in {GeoAddress(<<"Berlin", " Germany">>), GeoAddress(<<"India">>)}

\* C7: when the location geocodes to an address whose country is allow-listed,
\* check_location returns True and llm.generate_content is not called.
C7_GeocodedAllowedNoClassifier ==
    GeocodedAllowed =>
        /\ ~probe.ret.raised
        /\ probe.ret.ok
        /\ probe.ret.llm_calls = 0

\* "Berlin" geocoded to "Berlin, Germany": accepted without the classifier
C7_Witness ==
    /\ GeocodedAllowed
    /\ probe.args.geo.address = <<"Berlin", " Germany">>
    /\ probe.args.personal_records # <<>>
    /\ probe.ret.ok
    /\ probe.ret.llm_calls = 0

\* C8: when geocode returns no address, check_location calls
\* llm.generate_content exactly once and returns True exactly when the text is
\* 'Yes'; in every other case the classifier is not called.
C8_FallbackOnlyWhenUnresolved ==
    LocationCalled =>
        IF probe.args.geo.kind = "none"
        THEN /\ ~probe.ret.raised
             /\ probe.ret.llm_calls = 1
             /\ probe.ret.ok <=> probe.args.prompt_result = "Yes"
        ELSE probe.ret.llm_calls = 0

\* The location text check_location reads is empty: no personal record, no
\* fields, no Location, or an empty Location
EmptyLocation ==
    /\ LocationCalled
    /\ Get(FirstFields(probe.args.personal_records), "Location", "") = ""

\* C9: with the personal record missing or the location empty, check_location
\* returns False whatever the geocoder and the classifier answer.
C9_EmptyLocationFails == EmptyLocation => ~probe.ret.ok

\* C10: main() evaluates only records whose status is empty or 'Pending',
\* writes a record's status at most once per run and only a terminal value, and
\* a record in a terminal state is never evaluated again nor rewritten, over any
\* number of runs.
C10_TerminalStatesAreFinal ==
    /\ [](/\ pc \in {"check_experience", "check_compensation", "check_location",
                     "update_status"} => status[record] \in {"", "Pending"}
          /\ \A i \in DOMAIN log.evaluated :
                 \A j \in DOMAIN log.evaluated :
                     log.evaluated[i] = log.evaluated[j] => i = j
          /\ \A i \in DOMAIN log.status_writes :
                 /\ log.status_writes[i][2] \in Terminal
                 /\ \A j \in DOMAIN log.status_writes :
                       log.status_writes[i][1] = log.status_writes[j][1] => i = j)
    /\ [][\A a \in Applicants :
             /\ status[a] \in Terminal => status'[a] = status[a]
             /\ status'[a] # status[a] => status'[a] \in Terminal
             /\ log'.evaluated # log.evaluated /\ pc = "check_experience"
                   => status[record] \in {"", "Pending"}]_vars

\* A second run evaluating a record while another one, in a terminal state, was
\* left out of the review
C10_Witness ==
    /\ runs = 2
    /\ pc = "check_compensation"
    /\ \E a \in Applicants :
          /\ status[a] \in Terminal
          /\ \A i \in DOMAIN applicants_to_review : applicants_to_review[i] # a

----------------------------------------------------------------------------
(* check_experience: the tier-1 flag and the summed days *)

\* Greatest index of a sequence whose element satisfies the test, 0 when none
LastIndex(n, Test(_)) ==
    IF \E i \in 1..n : Test(i)
    THEN CHOOSE i \in 1..n : Test(i) /\ \A j \in (i + 1)..n : ~Test(j)
    ELSE 0

\* The last entry whose two dates parse: the last one to assign worked_at_tier_1
LastParsed(experiences) ==
    LET Parsed(i) == EntryDays(experiences[i]).ok
    IN  LastIndex(Len(experiences), Parsed)

\* The last entry the classifier answered 'Yes' for
LastYes(answers) ==
    LET Yes(i) == answers[i] = "Yes"
    IN  LastIndex(Len(answers), Yes)

\* C11 (as stated): worked_at_tier_1 ends true only if the last entry answered
\* 'Yes' itself has parseable dates of positive duration, and the value reflects
\* only the last entry visited: a 'Yes' of an earlier entry does not carry over
\* to a later entry answered otherwise.
C11_FlagOfLastYesEntryOnly ==
    (ExperienceCalled /\ probe.ret.worked_at_tier_1) =>
        LET m == LastYes(probe.args.answers)
            k == LastParsed(probe.args.experiences)
        IN  /\ m > 0
            /\ EntryDays(probe.args.experiences[m]).ok
            /\ EntryDays(probe.args.experiences[m]).days > 0
            /\ probe.args.answers[k] = "Yes"

\* C11 (amended): worked_at_tier_1 ends true exactly when some entry's dates
\* parse, the last such entry has a positive duration, and the classifier
\* answered 'Yes' for that entry or for any entry before it (temp_tier_1 is
\* never reset).
C11_FlagCarriesEarlierYes ==
    ExperienceCalled =>
        LET k == LastParsed(probe.args.experiences)
        IN  probe.ret.worked_at_tier_1 <=>
               /\ k > 0
               /\ EntryDays(probe.args.experiences[k]).days > 0
               /\ \E j \in 1..k : probe.args.answers[j] = "Yes"

\* A 'Yes' for an entry without dates, carried over to a later entry answered
\* 'No'
C11_Witness ==
    /\ ExperienceCalled
    /\ Len(probe.args.experiences) = 2
    /\ probe.args.answers = <<"Yes", "No">>
    /\ ~EntryDays(probe.args.experiences[1]).ok
    /\ EntryDays(probe.args.experiences[2]).ok
    /\ probe.ret.worked_at_tier_1
    /\ probe.ret.ok

\* The day an end-date text stands for: today for 'present' in any case, the
\* parsed date otherwise
EndDate(text) ==
    IF text \in {"present", "Present", "PRESENT"}
    THEN [ok |-> TRUE, ord |-> Today]
    ELSE Strptime(text)

\* (end - start) in days when both dates of the entry parse, 0 otherwise
SpanOrZero(fields) ==
    LET s == Strptime(Get(fields, "Start", NoneVal))
        e == EndDate(Get(fields, "End", NoneVal))
    IN  IF s.ok /\ e.ok THEN e.ord - s.ord ELSE 0

RECURSIVE SumSpans(_)
SumSpans(experiences) ==
    IF experiences = <<>> THEN 0
    ELSE SpanOrZero(Head(experiences)) + SumSpans(Tail(experiences))

\* C12: an entry with a missing or unparseable date adds zero days and does not
\* stop the evaluation: total_days is the sum of (end - start) over the entries
\* whose two dates parse, a sum that depends neither on the order of the entries
\* nor on the classifier's answers, and check_experience returns its (boolean,
\* reason) after visiting every entry.
C12_UnparseableEntriesAddZero ==
    ExperienceCalled =>
        LET exps == probe.args.experiences
            total == SumSpans(exps)
        IN  /\ probe.ret.total_days = total
            /\ probe.ret.ok \in BOOLEAN
            /\ probe.ret.reason[2] = YearsTenths(total)
            /\ probe.ret.llm_calls = Len(exps)

\* An entry whose start date does not parse, before one that counts
C12_Witness ==
    /\ ExperienceCalled
    /\ Len(probe.args.experiences) = 2
    /\ Get(probe.args.experiences[1], "Start", NoneVal) = "Jan 2020"
    /\ SpanOrZero(probe.args.experiences[2]) > 0
    /\ probe.ret.total_days = SpanOrZero(probe.args.experiences[2])

----------------------------------------------------------------------------
(* main(): the lead write, the order of the run, errors *)

LeadWritten == log'.lead_writes # log.lead_writes /\ pc = "create_shortlisted_lead"

\* C13: the script writes to the lead table only for a record whose status it
\* wrote as 'Shortlisted' in this run, after that write and the sleep; the write
\* updates the existing lead record of that applicant with the composite
\* rationale, never creates one, and without a lead record nothing is written.
C13_LeadWriteOnlyUpdatesAfterShortlisting ==
    [][/\ LeadWritten =>
            /\ leads[record].exists
            /\ log'.lead_writes = Append(log.lead_writes, <<record, "update">>)
            /\ status[record] = "Shortlisted"
            /\ \E i \in DOMAIN log.status_writes :
                   log.status_writes[i] = <<record, "Shortlisted">>
            /\ leads' = [leads EXCEPT ![record].score_reason =
                             <<"Shortlisted", exp.reason, comp.reason, loc.reason>>]
       /\ (\E a \in Applicants : leads'[a].score_reason # leads[a].score_reason)
             => LeadWritten
       /\ (\E a \in Applicants : leads'[a].exists # leads[a].exists)
             => UNCHANGED <<pc, log, status, runs, idx>>
       /\ (pc = "create_shortlisted_lead" /\ pc' # pc /\ ~leads[record].exists)
             => (leads' = leads /\ log'.lead_writes = log.lead_writes)
       /\ (pc' = "create_shortlisted_lead" /\ pc # pc') => pc = "sleep"
       /\ (pc' = "sleep" /\ pc # pc')
             => (StatusWritten /\ status'[record] = "Shortlisted")]_vars

\* The rationale of a shortlisted applicant, written onto its lead record
C13_Witness ==
    /\ log.lead_writes # <<>>
    /\ LET a == log.lead_writes[Len(log.lead_writes)][1]
       IN  /\ leads[a].exists
           /\ status[a] = "Shortlisted"
           /\ Len(leads[a].score_reason) = 4
           /\ leads[a].score_reason[1] = "Shortlisted"

----------------------------------------------------------------------------
(* generate_content: attempts, waits, result *)

GenerateContentCalled == probe.fn = "generate_content"

\* The attempts (counted from 1) whose call returns a text
Successes(outcomes) == {j \in DOMAIN outcomes : outcomes[j] # Raises}
FirstSuccess(outcomes) ==
    CHOOSE j \in Successes(outcomes) : \A i \in Successes(outcomes) : j <= i

\* The waits after failed attempts 0 .. m-1: 1, then backoff_factor times the last
ExponentialWaits(sleeps, m, backoff_factor) ==
    /\ Len(sleeps) = m
    /\ m >= 1 => sleeps[1] = 1
    /\ \A i \in 1..(m - 1) : sleeps[i + 1] = backoff_factor * sleeps[i]

\* C14: generate_content with max_retries = n makes at most n calls; it returns
\* the text of the first successful call and calls no more; it waits
\* backoff_factor**k after failed attempt k < n-1 and not after the last
\* attempt; after n failed attempts it returns None.
C14_BoundedRetriesWithBackoff ==
    GenerateContentCalled =>
        LET o   == probe.args.outcomes
            n   == probe.args.max_retries
            b   == probe.args.backoff_factor
            ret == probe.ret
        IN  /\ ret.calls <= n
            /\ IF Successes(o) # {}
               THEN /\ ret.text = o[FirstSuccess(o)]
                    /\ ret.calls = FirstSuccess(o)
                    /\ ExponentialWaits(ret.sleeps, FirstSuccess(o) - 1, b)
               ELSE /\ ret.text = NoneVal
                    /\ ret.calls = n
                    /\ ExponentialWaits(ret.sleeps, IF n = 0 THEN 0 ELSE n - 1, b)

\* Three attempts that all fail: two waits, then None
C14_Witness ==
    /\ GenerateContentCalled
    /\ probe.args.max_retries = 3
    /\ Successes(probe.args.outcomes) = {}
    /\ probe.ret.text = NoneVal
    /\ probe.ret.calls = 3
    /\ probe.ret.sleeps = <<1, probe.args.backoff_factor>>

----------------------------------------------------------------------------
(* main(): one applicant at a time, and the first error ends the run *)

ScoreReasons(l) == [a \in Applicants |-> l[a].score_reason]

\* C15: main() handles the fetched records one at a time in fetched order, the
\* three evaluators and the writes of one record done before the next record's
\* first call; an exception while record k is handled ends the run: main() has
\* returned, no status or lead write follows for k or a later record, and the
\* statuses written before stay as written.
C15_SequentialAndStopsAtFirstError ==
    /\ [](/\ log.error => pc = "idle"
          /\ \A i \in DOMAIN log.status_writes :
                status[log.status_writes[i][1]] = log.status_writes[i][2]
          /\ pc # "idle" =>
                /\ idx \in DOMAIN applicants_to_review
                /\ \A i \in DOMAIN log.evaluated :
                      log.evaluated[i] = applicants_to_review[i]
                /\ \A i \in DOMAIN log.status_writes :
                      log.status_writes[i][1] = applicants_to_review[i]
                /\ Len(log.evaluated) =
                      IF pc = "check_experience" THEN idx - 1 ELSE idx
                /\ Len(log.status_writes) =
                      IF pc \in {"sleep", "create_shortlisted_lead"}
                      THEN idx ELSE idx - 1
                /\ exp.set = (pc # "check_experience")
                /\ comp.set = (pc \notin {"check_experience", "check_compensation"})
                /\ loc.set = (pc \notin {"check_experience", "check_compensation",
                                         "check_location"}))
    /\ [][/\ (pc # "idle" /\ idx' # idx /\ pc' # "idle") =>
               /\ idx' = idx + 1
               /\ pc' = "check_experience"
               /\ pc \in {"update_status", "create_shortlisted_lead"}
               /\ status'[record] \in Terminal
               /\ pc = "update_status" => status'[record] = "Not Shortlisted"
          /\ status' # status =>
               /\ StatusWritten
               /\ exp.set /\ comp.set /\ loc.set
               /\ \A a \in Applicants \ {record} : status'[a] = status[a]
          /\ (log'.error /\ runs' = runs) =>
               /\ pc' = "idle"
               /\ status' = status
               /\ ScoreReasons(leads') = ScoreReasons(leads)
               /\ log'.status_writes = log.status_writes
               /\ log'.lead_writes = log.lead_writes
          /\ (log'.error /\ runs' # runs) =>
               /\ pc' = "idle"
               /\ status' = status
               /\ leads' = leads
               /\ log'.status_writes = <<>>
               /\ log'.lead_writes = <<>>]_vars

\* The run ended by an error while the second record was handled: the first
\* record's status stays written, the second record's status is as fetched
C15_Witness ==
    /\ log.error
    /\ pc = "idle"
    /\ Len(log.status_writes) = 1
    /\ Len(log.evaluated) = 2
    /\ status[log.status_writes[1][1]] = log.status_writes[1][2]
    /\ status[log.evaluated[2]] \notin Terminal

----------------------------------------------------------------------------
(* check_location: the reason returned *)

\* The personal record stores a location text
LocationStored ==
    /\ LocationCalled
    /\ "Location" \in DOMAIN FirstFields(probe.args.personal_records)

StoredLocation == FirstFields(probe.args.personal_records)["Location"]

\* C16: on every return of check_location the reason carries the location text
\* stored in the personal record, with 'Allowed' exactly when the boolean is
\* True and 'Not in allowed list' exactly when it is False.
C16_ReasonEchoesStoredLocation ==
    (LocationStored /\ ~probe.ret.raised) =>
        /\ probe.ret.reason[1] = "Location"
        /\ probe.ret.reason[2] = StoredLocation
        /\ probe.ret.reason[3] = "Allowed" <=> probe.ret.ok
        /\ probe.ret.reason[3] = "Not in allowed list" <=> ~probe.ret.ok

====
